---------------------------- MODULE Spec2Model ----------------------------
(***************************************************************************)
(* Model of the TensorFlow Lite custom HASHTABLE kernel                     *)
(* (tensorflow/lite/kernels/hashtable/hashtable.cc).                        *)
(*                                                                         *)
(* The kernel registers four callbacks: InitHashtable, FreeHashtable,       *)
(* PrepareHashtable and EvalHashtable.  The host (Subgraph) owns the        *)
(* nodes, the tensors, the heap of TfLiteIntArray shape arrays and one      *)
(* resource map per subgraph.                                               *)
(***************************************************************************)
EXTENDS Integers, Sequences, FiniteSets, TLC

(***************************************************************************)
(* Bounds of the model.                                                     *)
(***************************************************************************)
\* each node is invoked at most MaxEvals times
MaxEvals == 2
\* number of TfLiteIntArray cells the heap can hold at once
MaxArrays == 4
\* shape resolution runs at most MaxPrepares times on each node
MaxPrepares == 2

(***************************************************************************)
(* Values of the C API.                                                     *)
(***************************************************************************)
kTfLiteOk == "kTfLiteOk"
kTfLiteError == "kTfLiteError"

kTfLiteNoType == "kTfLiteNoType"
kTfLiteFloat32 == "kTfLiteFloat32"
kTfLiteInt32 == "kTfLiteInt32"
kTfLiteInt64 == "kTfLiteInt64"
kTfLiteString == "kTfLiteString"
kTfLiteResource == "kTfLiteResource"

\* nullptr, for node->user_data and the configuration buffer
NULL == [null |-> TRUE]
\* a TfLiteHashtableParams that has been deleted
Deleted == [deleted |-> TRUE]
\* tensor->dims is the address of a heap cell, or the null address
NullArray == 0
\* a heap cell that holds no array
FreeCell == [live |-> FALSE, size |-> 0, data |-> << >>]
\* tensor->data: no buffer, a buffer never written, a buffer holding i32
NullData == [alloc |-> FALSE, written |-> FALSE, i32 |-> 0]
Uninit == [alloc |-> TRUE, written |-> FALSE, i32 |-> 0]

kResourceHandleTensor == 0
kTfLiteOptionalTensor == -1

(***************************************************************************)
(* std::string values are sequences of bytes.                               *)
(***************************************************************************)
EmptyName == << >>
NameT1 == <<116, 49>>                          \* "t1"
NameT2 == <<116, 50>>                          \* "t2"
NameStmuj7a == <<115, 116, 109, 117, 106, 55, 97>>  \* "stmuj7a"
Names == {EmptyName, NameT1, NameT2, NameStmuj7a}

(***************************************************************************)
(* std::hash<std::string>: a 64-bit (size_t) string hash.  The standard     *)
(* leaves the function to the library; it is computed here as the 64-bit    *)
(* FNV-1a hash, on eight 8-bit limbs, least significant first.              *)
(***************************************************************************)
RECURSIVE BitXor(_, _)
BitXor(a, b) ==
    IF a = 0 THEN b
    ELSE IF b = 0 THEN a
    ELSE (((a % 2) + (b % 2)) % 2) + 2 * BitXor(a \div 2, b \div 2)

\* 14695981039346656037 = 0xCBF29CE484222325
FnvOffsetBasis == <<37, 35, 34, 132, 228, 156, 242, 203>>

\* limbs of x * 435 (435 = 0x1B3), modulo 2^64
RECURSIVE MulSmall(_, _, _, _)
MulSmall(x, k, i, carry) ==
    IF i > 8 THEN << >>
    ELSE LET t == x[i] * k + carry
         IN  <<(t % 256)>> \o MulSmall(x, k, i + 1, t \div 256)

\* limbs of x * 2^40, modulo 2^64
ShiftLeft40(x) == [i \in 1..8 |-> IF i > 5 THEN x[i - 5] ELSE 0]

\* limbs of x + y, modulo 2^64
RECURSIVE AddLimbs(_, _, _, _)
AddLimbs(x, y, i, carry) ==
    IF i > 8 THEN << >>
    ELSE LET t == x[i] + y[i] + carry
         IN  <<(t % 256)>> \o AddLimbs(x, y, i + 1, t \div 256)

\* x * 1099511628211 (0x100000001B3 = 2^40 + 435), modulo 2^64
MulFnvPrime(x) == AddLimbs(MulSmall(x, 435, 1, 0), ShiftLeft40(x), 1, 0)

RECURSIVE FnvFold(_, _, _)
FnvFold(h, s, i) ==
    IF i > Len(s) THEN h
    ELSE FnvFold(MulFnvPrime([h EXCEPT ![1] = BitXor(h[1], s[i])]), s, i + 1)

Fnv1a64(s) == FnvFold(FnvOffsetBasis, s, 1)

\* std::hash<std::string>{}(s), tabulated over the names of the model
HashOfName == [s \in Names |-> Fnv1a64(s)]
StdHash(s) == HashOfName[s]

\* variant of ToInt32: the high 32 bits are kept
ToInt32_HighWord(h) ==
    LET hi == IF h[8] >= 128 THEN h[8] - 256 ELSE h[8]
    IN  ((hi * 256 + h[7]) * 256 + h[6]) * 256 + h[5]

\* conversion of a size_t to int32_t: the low 32 bits, read as two's
\* complement
ToInt32(h) ==
    LET hi == IF h[4] >= 128 THEN h[4] - 256 ELSE h[4]
    IN  ((hi * 256 + h[3]) * 256 + h[2]) * 256 + h[1]


(***************************************************************************)
(* The graph: nodes, subgraphs (one resource map each), configuration       *)
(* buffers.                                                                 *)
(***************************************************************************)
Nodes == {"n1", "n2"}
Subgraphs == {"A", "B"}

\* TensorType codes of the schema: FLOAT32 = 0, INT64 = 4, STRING = 5, and a
\* code outside the enumeration
TensorTypes == {0, 4, 5, 127}

\* the flexbuffers map handed to InitHashtable
Buffers == [shared_name : Names, key_dtype : TensorTypes, value_dtype : TensorTypes]

\* the declared type of the output tensor
OutputTypes == {kTfLiteResource, kTfLiteInt32, kTfLiteFloat32}

VARIABLES
    node,        \* TfLiteNode: inputs, outputs (tensor indices), its subgraph
    buffer,      \* the custom_initial_data of each node, or NULL
    user_data,   \* node->user_data: NULL, a TfLiteHashtableParams, or Deleted
    tensor,      \* the tensor at index 0 of each node: type, bytes, dims, data
    arrays,      \* heap of TfLiteIntArray: cell -> contents or FreeCell
    heapError,   \* TRUE once a TfLiteIntArray was freed twice
    resources,   \* subgraph->resources(): one set of resources per subgraph
    crashed,     \* the process was aborted
    call,        \* per node: lifecycle position, last returned statuses, and
                 \* whether shape resolution ran again after an execution
    prepares,    \* per node: number of PrepareHashtable calls
    evals,       \* per node: number of EvalHashtable calls
    first        \* per subgraph: the first execution of each table name

vars == <<node, buffer, user_data, tensor, arrays, heapError, resources,
          crashed, call, prepares, evals, first>>

(***************************************************************************)
(* Collaborators of the kernel.                                             *)
(***************************************************************************)
\* ConvertTensorType(tensor_type, &type, error_reporter)
ConvertTensorType(tensor_type) ==
    CASE tensor_type = 0 -> [status |-> kTfLiteOk, type |-> kTfLiteFloat32]
      [] tensor_type = 4 -> [status |-> kTfLiteOk, type |-> kTfLiteInt64]
      [] tensor_type = 5 -> [status |-> kTfLiteOk, type |-> kTfLiteString]
      [] OTHER -> [status |-> kTfLiteError, type |-> kTfLiteNoType]

NumInputs(nd) == Len(nd.inputs)
NumOutputs(nd) == Len(nd.outputs)

\* GetOutputSafe(context, node, index, &tensor): the tensor index 0 is the
\* only tensor of the node that is modelled
GetOutputSafe(nd, index) ==
    IF index < 0 \/ index >= Len(nd.outputs) THEN kTfLiteError
    ELSE IF nd.outputs[index + 1] = kTfLiteOptionalTensor THEN kTfLiteError
    ELSE kTfLiteOk

\* TfLiteTensorRealloc(num_bytes, tensor)
TfLiteTensorRealloc(num_bytes, t) ==
    [t EXCEPT !.data = IF t.data = NullData THEN Uninit ELSE t.data,
              !.bytes = num_bytes]

\* TfLiteIntArrayCreate(size): the cell malloc returns, no element stored yet
HasFreeCell(heap) == \E i \in DOMAIN heap : heap[i] = FreeCell
NewCell(heap) ==
    CHOOSE i \in DOMAIN heap :
        heap[i] = FreeCell /\ \A j \in DOMAIN heap : j < i => heap[j] # FreeCell
TfLiteIntArrayCreate(heap, size) ==
    [heap EXCEPT ![NewCell(heap)] = [live |-> TRUE, size |-> size, data |-> << >>]]

\* TfLiteIntArrayFree(a)
TfLiteIntArrayFree(heap, a) == [heap EXCEPT ![a] = FreeCell]

\* resource::CreateHashtableResourceIfNotAvailable(resources, resource_id,
\* key_dtype, value_dtype); instance is the identity of the object it creates
CreateHashtableResourceIfNotAvailable(res, resource_id, key_dtype, value_dtype, instance) ==
    IF \E r \in res : r.id = resource_id THEN res
    ELSE res \cup {[id |-> resource_id, key_dtype |-> key_dtype,
                    value_dtype |-> value_dtype, instance |-> instance]}


(***************************************************************************)
(* Initial states: the host has added the nodes of the graph               *)
(* (Subgraph::AddNodeWithParameters) and has called no callback yet.        *)
(* The graphs considered are the graphs of one node of any arity, output    *)
(* type, initial shape and configuration buffer, and the graphs of two      *)
(* well-formed nodes, in one subgraph or in two, whose type codes are       *)
(* INT64 or STRING.  The nodes of a graph are interchangeable, so the       *)
(* first node of a two-node graph is given one of two names only.           *)
(***************************************************************************)
\* index of the output tensor of each node, and of some other tensor
TensorIndex == [n \in Nodes |-> IF n = "n1" THEN 0 ELSE 1]
OtherTensor == Cardinality(Nodes)

NodeShapes(n) ==
    [inGraph : {TRUE}, subgraph : {"A"},
     inputs : {<< >>, <<OtherTensor>>},
     outputs : {<< >>, <<TensorIndex[n]>>, <<kTfLiteOptionalTensor>>,
                <<TensorIndex[n], OtherTensor>>}]

WellFormedNode(n, sg) ==
    [inGraph |-> TRUE, subgraph |-> sg, inputs |-> << >>,
     outputs |-> <<TensorIndex[n]>>]

AbsentNode(n) ==
    [inGraph |-> FALSE, subgraph |-> "A", inputs |-> << >>,
     outputs |-> <<TensorIndex[n]>>]

WellTypedBuffers ==
    {b \in Buffers : b.key_dtype \in {4, 5} /\ b.value_dtype \in {4, 5}}

\* a tensor the host has not allocated yet
NewTensor(type, dims) ==
    [type |-> type, bytes |-> 0, dims |-> dims, data |-> NullData]

EmptyHeap == [i \in 1..MaxArrays |-> FreeCell]

NotCalled ==
    [pc |-> "added", prepare |-> "none", eval |-> "none", replanned |-> FALSE]

InitCommon ==
    /\ user_data = [n \in Nodes |-> NULL]
    /\ heapError = FALSE
    /\ resources = [sg \in Subgraphs |-> {}]
    /\ crashed = FALSE
    /\ call = [n \in Nodes |-> NotCalled]
    /\ prepares = [n \in Nodes |-> 0]
    /\ evals = [n \in Nodes |-> 0]
    /\ first = [sg \in Subgraphs |-> << >>]

InitOneNode ==
    /\ \E nd \in NodeShapes("n1") :
           node = [n \in Nodes |-> IF n = "n1" THEN nd ELSE AbsentNode(n)]
    /\ \E b \in Buffers \cup {NULL} :
           buffer = [n \in Nodes |-> IF n = "n1" THEN b ELSE NULL]
    /\ \E type \in OutputTypes, hasDims \in BOOLEAN :
           /\ tensor = [n \in Nodes |->
                          IF n = "n1" /\ hasDims THEN NewTensor(type, 1)
                          ELSE IF n = "n1" THEN NewTensor(type, NullArray)
                          ELSE NewTensor(kTfLiteResource, NullArray)]
           /\ arrays = IF hasDims THEN [EmptyHeap EXCEPT ![1] = [live |-> TRUE, size |-> 0, data |-> << >>]]
                       ELSE EmptyHeap

InitTwoNodes ==
    /\ \E sg \in Subgraphs :
           node = [n \in Nodes |->
                     WellFormedNode(n, IF n = "n1" THEN "A" ELSE sg)]
    /\ buffer \in [Nodes -> WellTypedBuffers]
    /\ buffer["n1"].shared_name \in {EmptyName, NameT1}
    /\ tensor = [n \in Nodes |-> NewTensor(kTfLiteResource, NullArray)]
    /\ arrays = EmptyHeap

Init == InitCommon /\ (InitOneNode \/ InitTwoNodes)

(***************************************************************************)
(* InitHashtable                                                            *)
(***************************************************************************)
\* the TfLiteHashtableParams filled from the flexbuffers map
DecodeParams(b) ==
    [table_name |-> b.shared_name,
     key_dtype |-> ConvertTensorType(b.key_dtype).type,
     value_dtype |-> ConvertTensorType(b.value_dtype).type]

\* ConvertTensorType is called with a null error reporter: when it rejects a
\* type code it stores kTfLiteNoType and reports through the null pointer
ConversionFails(b) ==
    \/ ConvertTensorType(b.key_dtype).status # kTfLiteOk
    \/ ConvertTensorType(b.value_dtype).status # kTfLiteOk

InitHashtable(n) ==
    /\ ~crashed
    /\ node[n].inGraph
    /\ call[n].pc = "added"
    /\ \/ \* TFLITE_CHECK(buffer != nullptr) aborts
          /\ buffer[n] = NULL
          /\ crashed' = TRUE
          /\ UNCHANGED <<user_data, call>>
       \/ \* the report through the null error reporter aborts
          /\ buffer[n] # NULL
          /\ ConversionFails(buffer[n])
          /\ crashed' = TRUE
          /\ UNCHANGED <<user_data, call>>
       \/ /\ buffer[n] # NULL
          /\ user_data' = [user_data EXCEPT ![n] = DecodeParams(buffer[n])]
          /\ call' = [call EXCEPT ![n].pc = "initialized"]
          /\ UNCHANGED crashed
    /\ UNCHANGED <<node, buffer, tensor, arrays, heapError, resources,
                   prepares, evals, first>>

(***************************************************************************)
(* FreeHashtable                                                            *)
(***************************************************************************)
\* variant of FreeHashtable: teardown also erases the resources the node
\* created
FreeHashtable_Erase(n) ==
    /\ ~crashed
    /\ node[n].inGraph
    /\ call[n].pc = "initialized"
    /\ user_data' = [user_data EXCEPT ![n] = Deleted]
    /\ call' = [call EXCEPT ![n].pc = "freed"]
    /\ resources' = [resources EXCEPT ![node[n].subgraph] =
                       {r \in @ : r.instance[1] # n}]
    /\ UNCHANGED <<node, buffer, tensor, arrays, heapError,
                   crashed, prepares, evals, first>>

FreeHashtable(n) ==
    /\ ~crashed
    /\ node[n].inGraph
    /\ call[n].pc = "initialized"
    /\ user_data' = [user_data EXCEPT ![n] = Deleted]
    /\ call' = [call EXCEPT ![n].pc = "freed"]
    /\ UNCHANGED <<node, buffer, tensor, arrays, heapError, resources,
                   crashed, prepares, evals, first>>


(***************************************************************************)
(* PrepareHashtable                                                         *)
(***************************************************************************)
\* variant of ArityOk: the number of inputs is not checked
ArityOk_NoInputCheck(nd) == NumOutputs(nd) = 1

\* TF_LITE_ENSURE_EQ(NumInputs(node), 0); TF_LITE_ENSURE_EQ(NumOutputs(node), 1)
ArityOk(nd) == NumInputs(nd) = 0 /\ NumOutputs(nd) = 1

\* TF_LITE_ENSURE(context, node->user_data != nullptr)
HasParams(ud) == ud # NULL

\* variant of NameOk: the length is compared with >= 0
NameOk_AnyLength(params) == Len(params.table_name) >= 0

\* TF_LITE_ENSURE(context, !params->table_name.empty())
NameOk(params) == params.table_name # << >>

\* variant of TypePairOk: the second pair is tested with "or"
TypePairOk_OrSlip(params) ==
    \/ params.key_dtype = kTfLiteInt64 /\ params.value_dtype = kTfLiteString
    \/ params.key_dtype = kTfLiteString \/ params.value_dtype = kTfLiteInt64

\* the two supported (key_dtype, value_dtype) pairs
TypePairOk(params) ==
    \/ params.key_dtype = kTfLiteInt64 /\ params.value_dtype = kTfLiteString
    \/ params.key_dtype = kTfLiteString /\ params.value_dtype = kTfLiteInt64

\* variant of OutputTypeOk: the two types are tested with !=
OutputTypeOk_NotEqual(t) == t.type # kTfLiteResource \/ t.type # kTfLiteInt32

\* the declared type of the resource handle tensor
OutputTypeOk(t) == t.type = kTfLiteResource \/ t.type = kTfLiteInt32

\* size_t bytesRequired = sizeof(int32_t)
bytesRequired == 4

\* variant of outputSize: a scalar shape, TfLiteIntArrayCreate(0)
outputSize_Scalar == << >>

\* outputSize = TfLiteIntArrayCreate(1); outputSize->data[0] = 1
outputSize == <<1>>

\* all checks of PrepareHashtable, in the order of the code
PrepareChecks(nd, ud, t) ==
    /\ ArityOk(nd)
    /\ HasParams(ud)
    /\ NameOk(ud)
    /\ TypePairOk(ud)
    /\ GetOutputSafe(nd, kResourceHandleTensor) = kTfLiteOk
    /\ OutputTypeOk(t)

\* variant of ReleaseDims: the old shape array is not freed
ReleaseDims_Leak(heap, t) == heap

\* if (resource_handle_tensor->dims) TfLiteIntArrayFree(...->dims)
ReleaseDims(heap, t) ==
    IF t.dims # NullArray THEN TfLiteIntArrayFree(heap, t.dims) ELSE heap

\* a TfLiteIntArray is freed that is not live
FreesDeadCell(heap, t) == t.dims # NullArray /\ heap[t.dims] = FreeCell

\* variant of PrepareHashtable: the tensor is resized before its type is
\* checked
PrepareHashtable_EarlyResize(n) ==
    /\ ~crashed
    /\ node[n].inGraph
    /\ call[n].pc \in {"added", "initialized"}
    /\ prepares[n] < MaxPrepares
    /\ prepares' = [prepares EXCEPT ![n] = @ + 1]
    /\ LET sized == [tensor[n] EXCEPT !.bytes = bytesRequired]
           realloced == TfLiteTensorRealloc(bytesRequired, sized)
           reachesResize ==
               /\ ArityOk(node[n]) /\ HasParams(user_data[n])
               /\ NameOk(user_data[n]) /\ TypePairOk(user_data[n])
               /\ GetOutputSafe(node[n], kResourceHandleTensor) = kTfLiteOk
       IN  IF ~PrepareChecks(node[n], user_data[n], tensor[n])
           THEN /\ call' = [call EXCEPT ![n].prepare = kTfLiteError]
                /\ tensor' = [tensor EXCEPT ![n] =
                                IF reachesResize THEN realloced ELSE @]
                /\ UNCHANGED <<arrays, heapError>>
           ELSE /\ HasFreeCell(arrays)
                /\ LET cell == NewCell(arrays)
                       created == [TfLiteIntArrayCreate(arrays, Len(outputSize))
                                     EXCEPT ![cell].data = outputSize]
                   IN  /\ heapError' =
                              (heapError \/ FreesDeadCell(created, realloced))
                       /\ arrays' = ReleaseDims(created, realloced)
                       /\ tensor' = [tensor EXCEPT ![n] =
                                       [realloced EXCEPT !.dims = cell]]
                /\ call' = [call EXCEPT
                             ![n].prepare = kTfLiteOk,
                             ![n].replanned = @ \/ tensor[n].data.written]
    /\ UNCHANGED <<node, buffer, user_data, resources, crashed, evals, first>>

PrepareHashtable(n) ==
    /\ ~crashed
    /\ node[n].inGraph
    /\ call[n].pc \in {"added", "initialized"}
    /\ prepares[n] < MaxPrepares
    /\ prepares' = [prepares EXCEPT ![n] = @ + 1]
    /\ IF ~PrepareChecks(node[n], user_data[n], tensor[n])
       THEN /\ call' = [call EXCEPT ![n].prepare = kTfLiteError]
            /\ UNCHANGED <<tensor, arrays, heapError>>
       ELSE /\ HasFreeCell(arrays)
            /\ LET sized == [tensor[n] EXCEPT !.bytes = bytesRequired]
                   realloced == TfLiteTensorRealloc(bytesRequired, sized)
                   cell == NewCell(arrays)
                   created == [TfLiteIntArrayCreate(arrays, Len(outputSize))
                                 EXCEPT ![cell].data = outputSize]
               IN  /\ heapError' = (heapError \/ FreesDeadCell(created, realloced))
                   /\ arrays' = ReleaseDims(created, realloced)
                   /\ tensor' = [tensor EXCEPT ![n] =
                                   [realloced EXCEPT !.dims = cell]]
            /\ call' = [call EXCEPT
                         ![n].prepare = kTfLiteOk,
                         ![n].replanned = @ \/ tensor[n].data.written]
    /\ UNCHANGED <<node, buffer, user_data, resources, crashed, evals, first>>

(***************************************************************************)
(* EvalHashtable                                                            *)
(***************************************************************************)
\* variant of ResourceId: the key type is mixed into the handle
ResourceId_WithKeyType(params) ==
    ToInt32(StdHash(params.table_name))
        + (IF params.key_dtype = kTfLiteInt64 THEN 1 ELSE 0)

\* const int32_t resource_id = std::hash<std::string>{}(params->table_name)
ResourceId(params) == ToInt32(StdHash(params.table_name))

\* variant of BindResource: a resource is created on every execution
BindResource_Always(res, resource_id, params, instance) ==
    res \cup {[id |-> resource_id, key_dtype |-> params.key_dtype,
                value_dtype |-> params.value_dtype, instance |-> instance]}

\* variant of BindResource: an existing resource is replaced by one of the
\* types of the caller
BindResource_Overwrite(res, resource_id, params, instance) ==
    {r \in res : r.id # resource_id}
        \cup {[id |-> resource_id, key_dtype |-> params.key_dtype,
                value_dtype |-> params.value_dtype, instance |-> instance]}

\* variant of BindResource: the tensor index is passed for the resource id
BindResource_WrongId(res, resource_id, params, instance) ==
    CreateHashtableResourceIfNotAvailable(res, kResourceHandleTensor,
                                          params.key_dtype, params.value_dtype,
                                          instance)

\* variant of BindResource: value_dtype and key_dtype are passed in the
\* other order
BindResource_Swapped(res, resource_id, params, instance) ==
    CreateHashtableResourceIfNotAvailable(res, resource_id, params.value_dtype,
                                          params.key_dtype, instance)

\* the call of CreateHashtableResourceIfNotAvailable on subgraph->resources()
BindResource(res, resource_id, params, instance) ==
    CreateHashtableResourceIfNotAvailable(res, resource_id, params.key_dtype,
                                          params.value_dtype, instance)

\* *resource_handle_tensor->data.i32 = resource_id
WriteHandle(t, resource_id) ==
    [t EXCEPT !.data = [alloc |-> TRUE, written |-> TRUE, i32 |-> resource_id]]

\* history: for each table name, the first execution in the subgraph that
\* was configured with it, in the order of these executions
RecordFirst(f, params, resource_id, instance) ==
    IF \E i \in 1..Len(f) : f[i].name = params.table_name THEN f
    ELSE Append(f, [name |-> params.table_name, id |-> resource_id,
                    instance |-> instance])

\* variant of EvalChecks: the output tensor is not looked up safely
EvalChecks_NoOutputCheck(nd, ud) == HasParams(ud)

\* TF_LITE_ENSURE(context, node->user_data != nullptr) and
\* TF_LITE_ENSURE_OK(context, GetOutputSafe(context, node, 0, ...))
EvalChecks(nd, ud) ==
    /\ HasParams(ud)
    /\ GetOutputSafe(nd, kResourceHandleTensor) = kTfLiteOk

\* variant of SubgraphOf: one registry for the whole process
SubgraphOf_Global(nd) == "A"

\* reinterpret_cast<Subgraph*>(context->impl_): the subgraph of the context
\* the node is invoked with
SubgraphOf(nd) == nd.subgraph

\* the body of EvalHashtable
EvalBody(n) ==
    /\ evals' = [evals EXCEPT ![n] = @ + 1]
    /\ LET sg == SubgraphOf(node[n])
           params == user_data[n]
           instance == <<n, evals[n] + 1>>
       IN  IF ~EvalChecks(node[n], params)
           THEN /\ call' = [call EXCEPT ![n].eval = kTfLiteError]
                /\ UNCHANGED <<tensor, resources, crashed, first>>
           ELSE IF tensor[n].data = NullData
           THEN \* the store through a null data pointer
                /\ crashed' = TRUE
                /\ UNCHANGED <<tensor, resources, call, first>>
           ELSE /\ tensor' = [tensor EXCEPT ![n] =
                                WriteHandle(@, ResourceId(params))]
                /\ resources' = [resources EXCEPT ![sg] =
                       BindResource(@, ResourceId(params), params, instance)]
                /\ first' = [first EXCEPT ![sg] =
                       RecordFirst(@, params, ResourceId(params), instance)]
                /\ call' = [call EXCEPT ![n].eval = kTfLiteOk]
                /\ UNCHANGED crashed
    /\ UNCHANGED <<node, buffer, user_data, arrays, heapError, prepares>>

\* the host invokes a node that shape resolution has accepted
EvalHashtable(n) ==
    /\ ~crashed
    /\ node[n].inGraph
    /\ call[n].pc = "initialized"
    /\ call[n].prepare = kTfLiteOk
    /\ evals[n] < MaxEvals
    /\ EvalBody(n)

\* a host that invokes a node shape resolution has not accepted: a node
\* that was not configured, or whose PrepareHashtable was skipped or failed
EvalUnprepared(n) ==
    /\ ~crashed
    /\ node[n].inGraph
    /\ call[n].pc \in {"added", "initialized"}
    /\ call[n].prepare # kTfLiteOk
    /\ evals[n] < MaxEvals
    /\ EvalBody(n)

(***************************************************************************)
(* The host calls the callbacks of the nodes one at a time.                 *)
(***************************************************************************)
Next ==
    \/ \E n \in Nodes : InitHashtable(n)
    \/ \E n \in Nodes : PrepareHashtable(n)
    \/ \E n \in Nodes : EvalHashtable(n)
    \/ \E n \in Nodes : FreeHashtable(n)

Spec == Init /\ [][Next]_vars

\* the same graphs under a host that does not wait for shape resolution
NextUnchecked ==
    \/ \E n \in Nodes : InitHashtable(n)
    \/ \E n \in Nodes : PrepareHashtable(n)
    \/ \E n \in Nodes : EvalHashtable(n)
    \/ \E n \in Nodes : EvalUnprepared(n)
    \/ \E n \in Nodes : FreeHashtable(n)

\* graphs of one node, and graphs of two nodes in one subgraph
InitUnchecked ==
    /\ InitCommon
    /\ \/ InitOneNode
       \/ InitTwoNodes /\ node["n2"].subgraph = "A"

SpecUnchecked == InitUnchecked /\ [][NextUnchecked]_vars

(***************************************************************************)
(* Concurrent executions: the nodes of one subgraph are executed by         *)
(* different threads.  An execution is two steps, the store of the handle   *)
(* into the node's own output and the call of the registry, whose           *)
(* create-if-absent is atomic; the steps of different nodes interleave.     *)
(***************************************************************************)
\* EvalHashtable up to *resource_handle_tensor->data.i32 = resource_id
EvalWrite(n) ==
    /\ ~crashed
    /\ node[n].inGraph
    /\ call[n].pc = "initialized"
    /\ call[n].prepare = kTfLiteOk
    /\ call[n].eval # "running"
    /\ evals[n] < MaxEvals
    /\ evals' = [evals EXCEPT ![n] = @ + 1]
    /\ LET params == user_data[n]
       IN  IF ~EvalChecks(node[n], params)
           THEN /\ call' = [call EXCEPT ![n].eval = kTfLiteError]
                /\ UNCHANGED <<tensor, crashed>>
           ELSE IF tensor[n].data = NullData
           THEN /\ crashed' = TRUE
                /\ UNCHANGED <<tensor, call>>
           ELSE /\ tensor' = [tensor EXCEPT
                                ![n] = WriteHandle(@, ResourceId(params))]
                /\ call' = [call EXCEPT ![n].eval = "running"]
                /\ UNCHANGED crashed
    /\ UNCHANGED <<node, buffer, user_data, arrays, heapError, resources,
                   prepares, first>>

\* EvalHashtable from CreateHashtableResourceIfNotAvailable to its return
EvalBind(n) ==
    /\ ~crashed
    /\ node[n].inGraph
    /\ call[n].eval = "running"
    /\ LET sg == SubgraphOf(node[n])
           params == user_data[n]
           instance == <<n, evals[n]>>
       IN  /\ resources' = [resources EXCEPT ![sg] =
                  BindResource(@, ResourceId(params), params, instance)]
           /\ first' = [first EXCEPT ![sg] =
                  RecordFirst(@, params, ResourceId(params), instance)]
    /\ call' = [call EXCEPT ![n].eval = kTfLiteOk]
    /\ UNCHANGED <<node, buffer, user_data, tensor, arrays, heapError, crashed,
                   prepares, evals>>

\* no node is inside EvalHashtable: configuration, shape resolution and
\* teardown do not overlap an invocation
Quiescent == \A n \in Nodes : call[n].eval # "running"

\* two named nodes in one subgraph
InitConcurrent ==
    /\ InitCommon
    /\ InitTwoNodes
    /\ node["n2"].subgraph = "A"
    /\ buffer["n1"].shared_name = NameT1
    /\ buffer["n2"].shared_name # EmptyName

InitHashtableIdle(n) == Quiescent /\ InitHashtable(n)

PrepareHashtableIdle(n) == Quiescent /\ PrepareHashtable(n)

FreeHashtableIdle(n) == Quiescent /\ FreeHashtable(n)

NextConcurrent ==
    \/ \E n \in Nodes : InitHashtableIdle(n)
    \/ \E n \in Nodes : PrepareHashtableIdle(n)
    \/ \E n \in Nodes : EvalWrite(n)
    \/ \E n \in Nodes : EvalBind(n)
    \/ \E n \in Nodes : FreeHashtableIdle(n)

SpecConcurrent == InitConcurrent /\ [][NextConcurrent]_vars


(***************************************************************************)
(* Vocabulary of the properties.                                            *)
(***************************************************************************)
\* the handle a table name stands for: its hash, truncated to int32_t
Handles == [name \in Names |-> ToInt32(StdHash(name))]
HandleOf(name) == Handles[name]

InGraph == {n \in Nodes : node[n].inGraph}

\* the node holds a parameter record
Configured(n) == node[n].inGraph /\ call[n].pc = "initialized"

\* the node has executed successfully at least once
Executed(n) == node[n].inGraph /\ call[n].eval = kTfLiteOk

\* this step is a call of PrepareHashtable on n
PrepareStep(n) == prepares'[n] = prepares[n] + 1

SupportedPairs ==
    {<<kTfLiteInt64, kTfLiteString>>, <<kTfLiteString, kTfLiteInt64>>}

TypePair(n) == <<user_data[n].key_dtype, user_data[n].value_dtype>>

\* zero inputs and one output
GoodArity(n) == Len(node[n].inputs) = 0 /\ Len(node[n].outputs) = 1

\* output 0 is a tensor
HasOutput(n) ==
    Len(node[n].outputs) >= 1 /\ node[n].outputs[1] # kTfLiteOptionalTensor

AcceptedOutputType(n) == tensor[n].type \in {kTfLiteResource, kTfLiteInt32}

ResourcesFor(sg, h) == {r \in resources[sg] : r.id = h}

\* the entries of the history of sg whose name derives handle h
FirstFor(sg, h) ==
    {i \in 1..Len(first[sg]) : HandleOf(first[sg][i].name) = h}

(***************************************************************************)
(* C1 (as amended): once some operation with a table name has executed in   *)
(* a subgraph, the registry of the subgraph holds exactly one resource for  *)
(* the handle of that name, and it is the instance created by the first     *)
(* execution in the subgraph whose name derives that handle.                *)
(***************************************************************************)
C1_OneResourceFromFirstOfHandle ==
    \A sg \in Subgraphs : \A i \in 1..Len(first[sg]) :
        LET h == HandleOf(first[sg][i].name)
            earliest == CHOOSE j \in FirstFor(sg, h) :
                            \A k \in FirstFor(sg, h) : j <= k
        IN  /\ Cardinality(ResourcesFor(sg, h)) = 1
            /\ \A r \in ResourcesFor(sg, h) :
                   r.instance = first[sg][earliest].instance

\* C1 as stated: the resource is the instance created by the first of the
\* executions configured with that name
C1_OneResourceFromFirstOfName ==
    \A sg \in Subgraphs : \A i \in 1..Len(first[sg]) :
        LET h == HandleOf(first[sg][i].name)
        IN  /\ Cardinality(ResourcesFor(sg, h)) = 1
            /\ \A r \in ResourcesFor(sg, h) :
                   r.instance = first[sg][i].instance

\* two nodes with one name have each run twice in one subgraph
C1_Witness ==
    /\ node["n1"].subgraph = node["n2"].subgraph
    /\ Executed("n1") /\ Executed("n2")
    /\ buffer["n1"].shared_name = buffer["n2"].shared_name
    /\ evals["n1"] >= 2 /\ evals["n2"] >= 2
    /\ Cardinality(resources[node["n1"].subgraph]) = 1

(***************************************************************************)
(* C2: with a non-empty name, zero inputs and one output of an accepted     *)
(* type, PrepareHashtable returns kTfLiteOk exactly when the (key, value)   *)
(* types are (int64, string) or (string, int64); for every other pair it    *)
(* returns kTfLiteError and the output tensor is never written.             *)
(***************************************************************************)
C2_Precondition(n) ==
    /\ Configured(n)
    /\ user_data[n].table_name # << >>
    /\ GoodArity(n) /\ HasOutput(n) /\ AcceptedOutputType(n)

C2_PrepareStep ==
    \A n \in Nodes :
        (PrepareStep(n) /\ C2_Precondition(n)) =>
            /\ (TypePair(n) \in SupportedPairs) <=> (call'[n].prepare = kTfLiteOk)
            /\ (TypePair(n) \notin SupportedPairs) =>
                   /\ call'[n].prepare = kTfLiteError
                   /\ tensor'[n] = tensor[n]

C2_NeverWritten ==
    \A n \in Nodes :
        (C2_Precondition(n) /\ TypePair(n) \notin SupportedPairs) =>
            /\ ~tensor[n].data.written
            /\ call[n].eval = "none"

C2_TypePairs == [][C2_PrepareStep]_vars /\ []C2_NeverWritten

\* a well-formed node with the pair (float32, string) was refused
C2_Witness ==
    \E n \in Nodes :
        /\ C2_Precondition(n)
        /\ TypePair(n) = <<kTfLiteFloat32, kTfLiteString>>
        /\ call[n].prepare = kTfLiteError

(***************************************************************************)
(* C3: two nodes of one subgraph with the same table name and the same      *)
(* type pair, once both have executed, hold the same handle in their        *)
(* output tensors, and the registry holds exactly one resource for it.      *)
(***************************************************************************)
C3_Aliased(n, m) ==
    /\ n # m
    /\ node[n].subgraph = node[m].subgraph
    /\ Executed(n) /\ Executed(m)
    /\ buffer[n].shared_name = buffer[m].shared_name
    /\ buffer[n].key_dtype = buffer[m].key_dtype
    /\ buffer[n].value_dtype = buffer[m].value_dtype

C3_SameHandleSameResource ==
    \A n, m \in Nodes :
        C3_Aliased(n, m) =>
            /\ tensor[n].data.written /\ tensor[m].data.written
            /\ tensor[n].data.i32 = tensor[m].data.i32
            /\ Cardinality(ResourcesFor(node[n].subgraph, tensor[n].data.i32)) = 1
            /\ Cardinality(ResourcesFor(node[m].subgraph, tensor[m].data.i32)) = 1

C3_Witness == C3_Aliased("n1", "n2") /\ first["A"][1].instance[1] = "n2"

(***************************************************************************)
(* C4: after a successful PrepareHashtable and EvalHashtable the output     *)
(* tensor holds hash(table_name) truncated to int32_t; and when the         *)
(* registry held no resource for that handle before the node first          *)
(* executed, it now holds one with the key_dtype and value_dtype of the     *)
(* node.                                                                    *)
(***************************************************************************)
\* n was the first node of its subgraph to derive the handle of its name
FirstOfHandle(n) ==
    LET sg == node[n].subgraph
        h == HandleOf(buffer[n].shared_name)
    IN  \E j \in FirstFor(sg, h) :
            /\ \A k \in FirstFor(sg, h) : j <= k
            /\ first[sg][j].instance[1] = n

C4_HandleAndResource ==
    \A n \in Nodes :
        (Executed(n) /\ Configured(n)) =>
            LET h == HandleOf(buffer[n].shared_name)
            IN  /\ tensor[n].data = [alloc |-> TRUE, written |-> TRUE, i32 |-> h]
                /\ ResourcesFor(node[n].subgraph, h) # {}
                /\ FirstOfHandle(n) =>
                       \A r \in ResourcesFor(node[n].subgraph, h) :
                           /\ r.key_dtype = user_data[n].key_dtype
                           /\ r.value_dtype = user_data[n].value_dtype

\* the scenario of the specification: "t1", int64 keys, string values
C4_Witness ==
    \E n \in Nodes :
        /\ Executed(n) /\ Configured(n) /\ FirstOfHandle(n)
        /\ buffer[n] = [shared_name |-> NameT1, key_dtype |-> 4, value_dtype |-> 5]
        /\ tensor[n].data.i32 = -1251320298
        /\ \E r \in resources[node[n].subgraph] :
               /\ r.id = -1251320298
               /\ r.key_dtype = kTfLiteInt64 /\ r.value_dtype = kTfLiteString

(***************************************************************************)
(* C5: from the first successful PrepareHashtable on, whatever is executed  *)
(* or prepared again, the output tensor has 4 bytes, one int32 cell, and    *)
(* the shape [1].                                                           *)
(***************************************************************************)
C5_OneCell ==
    \A n \in Nodes :
        (node[n].inGraph /\ call[n].prepare = kTfLiteOk) =>
            /\ tensor[n].bytes = 4
            /\ tensor[n].data.alloc
            /\ tensor[n].dims # NullArray
            /\ arrays[tensor[n].dims] = [live |-> TRUE, size |-> 1, data |-> <<1>>]

C5_Witness ==
    \E n \in Nodes :
        /\ call[n].prepare = kTfLiteOk /\ evals[n] >= 2 /\ prepares[n] >= 2
        /\ tensor[n].data.written /\ tensor[n].bytes = 4


(***************************************************************************)
(* C6: with a parameter record, a non-empty name, a supported type pair     *)
(* and an output tensor of an accepted type wherever output 0 exists,       *)
(* PrepareHashtable returns kTfLiteOk on a node with zero inputs and one    *)
(* output, and kTfLiteError on a node with an input or with a number of     *)
(* outputs other than one.                                                  *)
(***************************************************************************)
C6_Precondition(n) ==
    /\ Configured(n)
    /\ user_data[n].table_name # << >>
    /\ TypePair(n) \in SupportedPairs
    /\ \A i \in 1..Len(node[n].outputs) :
           node[n].outputs[i] # kTfLiteOptionalTensor
    /\ AcceptedOutputType(n)

C6_PrepareStep ==
    \A n \in Nodes :
        (PrepareStep(n) /\ C6_Precondition(n)) =>
            /\ GoodArity(n) => call'[n].prepare = kTfLiteOk
            /\ (Len(node[n].inputs) >= 1 \/ Len(node[n].outputs) # 1) =>
                   call'[n].prepare = kTfLiteError

C6_Arity == [][C6_PrepareStep]_vars

\* a node with one input and one output, valid otherwise, was refused
C6_Witness ==
    \E n \in Nodes :
        /\ C6_Precondition(n)
        /\ Len(node[n].inputs) = 1 /\ Len(node[n].outputs) = 1
        /\ call[n].prepare = kTfLiteError

(***************************************************************************)
(* C7: on a node that is valid otherwise, PrepareHashtable returns          *)
(* kTfLiteOk when the output tensor is declared kTfLiteResource or          *)
(* kTfLiteInt32, and kTfLiteError for every other declared type.            *)
(***************************************************************************)
C7_Precondition(n) ==
    /\ Configured(n)
    /\ user_data[n].table_name # << >>
    /\ TypePair(n) \in SupportedPairs
    /\ GoodArity(n) /\ HasOutput(n)

C7_PrepareStep ==
    \A n \in Nodes :
        (PrepareStep(n) /\ C7_Precondition(n)) =>
            (call'[n].prepare = kTfLiteOk <=> AcceptedOutputType(n))

C7_OutputType == [][C7_PrepareStep]_vars

\* a node whose output is declared float32, valid otherwise, was refused
C7_Witness ==
    \E n \in Nodes :
        /\ C7_Precondition(n)
        /\ tensor[n].type = kTfLiteFloat32
        /\ call[n].prepare = kTfLiteError

(***************************************************************************)
(* C8: a call of PrepareHashtable that returns kTfLiteError changes         *)
(* neither the tensors (bytes, shape, contents), nor the heap of shape      *)
(* arrays, nor the registries, nor the parameter records.                   *)
(***************************************************************************)
C8_FailedPrepareStep ==
    \A n \in Nodes :
        (PrepareStep(n) /\ call'[n].prepare = kTfLiteError) =>
            /\ tensor' = tensor
            /\ arrays' = arrays /\ heapError' = heapError
            /\ resources' = resources
            /\ user_data' = user_data

C8_NoPartialEffect == [][C8_FailedPrepareStep]_vars

\* a node that only fails the check of the output type was refused; its
\* tensor, which had a shape array, is as the host made it
C8_Witness ==
    \E n \in Nodes :
        /\ C7_Precondition(n)
        /\ tensor[n].type = kTfLiteFloat32
        /\ call[n].prepare = kTfLiteError
        /\ tensor[n] = NewTensor(kTfLiteFloat32, 1)

(***************************************************************************)
(* C9: a node configured with an empty table name is refused by every       *)
(* PrepareHashtable, is never executed, never has a handle written to its   *)
(* output tensor and never creates a resource.                              *)
(***************************************************************************)
EmptyNamed(n) ==
    node[n].inGraph /\ buffer[n] # NULL /\ buffer[n].shared_name = << >>

C9_EmptyNameNeverRuns ==
    \A n \in Nodes :
        EmptyNamed(n) =>
            /\ call[n].prepare # kTfLiteOk
            /\ call[n].eval = "none" /\ evals[n] = 0
            /\ ~tensor[n].data.written
            /\ \A sg \in Subgraphs : \A r \in resources[sg] : r.instance[1] # n

\* an empty-named node, valid otherwise, was refused while another node of
\* the same subgraph has executed
C9_Witness ==
    \E n, m \in Nodes :
        /\ EmptyNamed(n) /\ Configured(n)
        /\ TypePair(n) \in SupportedPairs
        /\ call[n].prepare = kTfLiteError
        /\ node[m].subgraph = node[n].subgraph /\ Executed(m)

(***************************************************************************)
(* C10: a call of PrepareHashtable on a node it has accepted before         *)
(* returns kTfLiteOk again and leaves the tensor with 4 bytes, the shape    *)
(* [1] and the contents it had; the old shape array is released, so that    *)
(* the live shape arrays are exactly those the tensors point to, as many    *)
(* as before, and none is freed twice.                                      *)
(***************************************************************************)
LiveArrays(heap) == {i \in DOMAIN heap : heap[i].live}
DimsOf(t) == {t[n].dims : n \in InGraph} \ {NullArray}

C10_RepeatedPrepareStep ==
    \A n \in Nodes :
        (PrepareStep(n) /\ call[n].prepare = kTfLiteOk) =>
            /\ call'[n].prepare = kTfLiteOk
            /\ tensor'[n].bytes = 4 /\ tensor'[n].bytes = tensor[n].bytes
            /\ tensor'[n].type = tensor[n].type
            /\ tensor'[n].data = tensor[n].data
            /\ tensor'[n].dims # NullArray
            /\ arrays'[tensor'[n].dims] = arrays[tensor[n].dims]
            /\ arrays'[tensor'[n].dims].data = <<1>>
            /\ LiveArrays(arrays') = DimsOf(tensor')
            /\ Cardinality(LiveArrays(arrays')) = Cardinality(LiveArrays(arrays))
            /\ ~heapError'

C10_PrepareIdempotent == [][C10_RepeatedPrepareStep]_vars

\* shape resolution ran again on a node that had executed: the handle is
\* still in the tensor
C10_Witness ==
    \E n \in Nodes :
        /\ call[n].replanned /\ call[n].prepare = kTfLiteOk
        /\ tensor[n].data.written
        /\ tensor[n].data.i32 = HandleOf(buffer[n].shared_name)
        /\ Cardinality(LiveArrays(arrays)) = Cardinality(DimsOf(tensor))


\* this step is a call of EvalHashtable on n
EvalStep(n) == evals'[n] = evals[n] + 1

(***************************************************************************)
(* C11: when EvalHashtable is called on a node that has no parameter       *)
(* record or whose output 0 cannot be located, it returns kTfLiteError     *)
(* without crashing, and the call leaves every registry as it was: no      *)
(* resource is created and the resources that exist are unchanged.  No     *)
(* handle is written either.                                               *)
(***************************************************************************)
C11_FailingEvalStep(n) ==
    /\ EvalStep(n)
    /\ user_data[n] = NULL \/ ~HasOutput(n)

C11_FailedEvalKeepsRegistry ==
    [][\A n \in Nodes :
          C11_FailingEvalStep(n) =>
              /\ call'[n].eval = kTfLiteError
              /\ ~crashed'
              /\ resources' = resources
              /\ tensor' = tensor]_vars

\* an unconfigured node was executed and failed, beside a node of the same
\* table name whose resource is in the registry
C11_Witness ==
    \E n, m \in Nodes :
        /\ n # m
        /\ node[n].inGraph /\ node[n].subgraph = node[m].subgraph
        /\ user_data[n] = NULL /\ call[n].eval = kTfLiteError
        /\ Executed(m)
        /\ buffer[n].shared_name = buffer[m].shared_name
        /\ ResourcesFor(node[m].subgraph, HandleOf(buffer[m].shared_name)) # {}
        /\ ~crashed

(***************************************************************************)
(* C12: the handle EvalHashtable writes depends on the table name only.     *)
(* Two nodes configured with the same table name hold the same handle once  *)
(* both have executed, whatever their key and value types, the subgraph     *)
(* and its registry, and the number of executions; and an execution of a    *)
(* node whose output already holds a handle writes that same handle again.  *)
(***************************************************************************)
C12_SameNameSameHandle ==
    \A n, m \in Nodes :
        (/\ Executed(n) /\ Executed(m)
         /\ buffer[n].shared_name = buffer[m].shared_name) =>
            /\ tensor[n].data.written /\ tensor[m].data.written
            /\ tensor[n].data.i32 = tensor[m].data.i32

C12_RewritesSameHandle ==
    \A n \in Nodes :
        (EvalStep(n) /\ call'[n].eval = kTfLiteOk) =>
            /\ tensor'[n].data.written
            /\ tensor[n].data.written =>
                   tensor'[n].data.i32 = tensor[n].data.i32
            /\ \A m \in Nodes :
                   (/\ tensor[m].data.written
                    /\ buffer[m].shared_name = buffer[n].shared_name) =>
                       tensor'[n].data.i32 = tensor[m].data.i32

C12_HandleDependsOnNameOnly ==
    []C12_SameNameSameHandle /\ [][C12_RewritesSameHandle]_vars

\* two nodes of one table name with different type pairs, in different
\* subgraphs of which one registry already held the resource, each executed
\* more than once
C12_Witness ==
    /\ Executed("n1") /\ Executed("n2")
    /\ buffer["n1"].shared_name = buffer["n2"].shared_name
    /\ buffer["n1"].shared_name # EmptyName
    /\ buffer["n1"].key_dtype # buffer["n2"].key_dtype
    /\ node["n1"].subgraph # node["n2"].subgraph
    /\ evals["n1"] >= 2 /\ evals["n2"] >= 2
    /\ tensor["n1"].data.i32 = tensor["n2"].data.i32

\* bits 0..31 of a hash value
LowWord(h) == <<h[1], h[2], h[3], h[4]>>

\* distinct names whose hashes differ, and differ above bit 31 only
Colliding(a, b) ==
    /\ a # b
    /\ StdHash(a) # StdHash(b)
    /\ LowWord(StdHash(a)) = LowWord(StdHash(b))

(***************************************************************************)
(* C13: there is no collision resolution.  When two nodes of one subgraph   *)
(* are configured with distinct table names whose hashes agree in their     *)
(* low 32 bits, and both have executed, both executions returned kTfLiteOk, *)
(* both outputs hold the same handle, and the registry of the subgraph      *)
(* holds a single resource for that handle, which both nodes use.           *)
(***************************************************************************)
C13_CollidingNamesShare ==
    \A n, m \in Nodes :
        (/\ node[n].inGraph /\ node[m].inGraph
         /\ node[n].subgraph = node[m].subgraph
         /\ evals[n] >= 1 /\ evals[m] >= 1
         /\ Colliding(buffer[n].shared_name, buffer[m].shared_name)) =>
            /\ call[n].eval = kTfLiteOk /\ call[m].eval = kTfLiteOk
            /\ ~crashed
            /\ tensor[n].data.written /\ tensor[m].data.written
            /\ tensor[n].data.i32 = tensor[m].data.i32
            /\ Cardinality(resources[node[n].subgraph]) = 1
            /\ \A r \in resources[node[n].subgraph] :
                   r.id = tensor[n].data.i32

\* "t1" and "stmuj7a" have both executed in subgraph A
C13_Witness ==
    /\ node["n1"].inGraph /\ node["n2"].inGraph
    /\ buffer["n1"].shared_name = NameT1
    /\ buffer["n2"].shared_name = NameStmuj7a
    /\ Colliding(NameT1, NameStmuj7a)
    /\ node["n2"].subgraph = "A"
    /\ evals["n1"] >= 1 /\ evals["n2"] >= 1
    /\ Cardinality(resources["A"]) = 1

\* the configuration block of n holds a type code the translation rejects
RejectedTypeCode(n) ==
    /\ node[n].inGraph
    /\ buffer[n] # NULL
    /\ \/ ConvertTensorType(buffer[n].key_dtype).status # kTfLiteOk
       \/ ConvertTensorType(buffer[n].value_dtype).status # kTfLiteOk

(***************************************************************************)
(* C14: no error is swallowed.  A node whose configuration block holds a    *)
(* type code that the translation rejects gets a status that is not         *)
(* kTfLiteOk from the callbacks: the process does not abort on it, its      *)
(* PrepareHashtable never returns kTfLiteOk, it is never executed, no       *)
(* handle is written to its output and no resource is created.              *)
(***************************************************************************)
C14_RejectedTypeCodeIsReported ==
    \A n \in Nodes :
        RejectedTypeCode(n) =>
            /\ ~crashed
            /\ call[n].prepare # kTfLiteOk
            /\ call[n].eval # kTfLiteOk
            /\ ~tensor[n].data.written
            /\ resources[node[n].subgraph] = {}

(***************************************************************************)
(* C15: when nodes of one subgraph whose table names derive the same        *)
(* handle execute concurrently, then under every interleaving of their      *)
(* steps the registry never holds more than one resource for the handle     *)
(* and never loses one, and every node whose execution has returned holds   *)
(* the handle of its name in its output while the resource for that handle  *)
(* exists.                                                                  *)
(***************************************************************************)
C15_AtMostOneAndBound ==
    /\ \A sg \in Subgraphs :
           \A name \in Names :
               Cardinality(ResourcesFor(sg, HandleOf(name))) <= 1
    /\ \A n \in Nodes :
           Executed(n) =>
               /\ tensor[n].data.written
               /\ tensor[n].data.i32 = HandleOf(buffer[n].shared_name)
               /\ ResourcesFor(node[n].subgraph,
                               HandleOf(buffer[n].shared_name)) # {}

C15_NeverRemoved == \A sg \in Subgraphs : resources[sg] \subseteq resources'[sg]

C15_ConcurrentCreateOnce ==
    []C15_AtMostOneAndBound /\ [][C15_NeverRemoved]_vars

\* both nodes of one table name have returned from a first execution and
\* are inside their second one at the same time
C15_Witness ==
    /\ call["n1"].eval = "running" /\ call["n2"].eval = "running"
    /\ evals["n1"] >= 2 /\ evals["n2"] >= 2
    /\ buffer["n1"].shared_name = buffer["n2"].shared_name
    /\ tensor["n1"].data.i32 = tensor["n2"].data.i32
    /\ Cardinality(resources["A"]) = 1

(***************************************************************************)
(* C16: registries are scoped to a subgraph.  An execution of a node adds   *)
(* a resource to the registry of the node's own subgraph only: a step of    *)
(* EvalHashtable on a node of one subgraph leaves the registry of every     *)
(* other subgraph as it was, also when that registry holds or lacks a       *)
(* resource of the same table name, and every resource of a registry was    *)
(* created by a node of its subgraph.                                       *)
(***************************************************************************)
C16_OtherRegistriesKept ==
    \A n \in Nodes :
        EvalStep(n) =>
            \A sg \in Subgraphs \ {node[n].subgraph} :
                resources'[sg] = resources[sg]

C16_CreatedInOwnSubgraph ==
    \A sg \in Subgraphs :
        \A r \in resources[sg] : node[r.instance[1]].subgraph = sg

C16_RegistryPerSubgraph ==
    [][C16_OtherRegistriesKept]_vars /\ []C16_CreatedInOwnSubgraph

\* the same table name has executed in subgraph A and in subgraph B, and
\* each registry holds the resource its own node created
C16_Witness ==
    /\ Executed("n1") /\ Executed("n2")
    /\ node["n1"].subgraph = "A" /\ node["n2"].subgraph = "B"
    /\ buffer["n1"].shared_name = buffer["n2"].shared_name
    /\ \E r \in resources["A"] : resources["A"] = {r} /\ r.instance[1] = "n1"
    /\ \E r \in resources["B"] : resources["B"] = {r} /\ r.instance[1] = "n2"

\* the element types the configuration block of n asks for
ConfiguredTypes(n) ==
    <<ConvertTensorType(buffer[n].key_dtype).type,
      ConvertTensorType(buffer[n].value_dtype).type>>

\* n is the node whose execution is the first of its table name in its
\* subgraph
ExecutedFirst(n) ==
    \E i \in 1..Len(first[node[n].subgraph]) :
        /\ first[node[n].subgraph][i].name = buffer[n].shared_name
        /\ first[node[n].subgraph][i].instance[1] = n

(***************************************************************************)
(* C17: EvalHashtable does not compare its types with those of an existing  *)
(* resource.  When two nodes of one subgraph have the same table name, one  *)
(* with types (int64, string) and the other (string, int64), and both have  *)
(* executed, both executions returned kTfLiteOk, the registry holds exactly *)
(* one resource for the handle, and this resource has the key and value     *)
(* types of the node that executed first.                                   *)
(***************************************************************************)
C17_FirstTypesKept ==
    \A n, m \in Nodes :
        (/\ n # m
         /\ node[n].inGraph /\ node[m].inGraph
         /\ node[n].subgraph = node[m].subgraph
         /\ buffer[n].shared_name = buffer[m].shared_name
         /\ ConfiguredTypes(n) = <<kTfLiteInt64, kTfLiteString>>
         /\ ConfiguredTypes(m) = <<kTfLiteString, kTfLiteInt64>>
         /\ evals[n] >= 1 /\ evals[m] >= 1) =>
            /\ call[n].eval = kTfLiteOk /\ call[m].eval = kTfLiteOk
            /\ LET found == ResourcesFor(node[n].subgraph,
                                         HandleOf(buffer[n].shared_name))
               IN  /\ Cardinality(found) = 1
                   /\ \A r \in found :
                          \A k \in {n, m} :
                              ExecutedFirst(k) =>
                                  <<r.key_dtype, r.value_dtype>> =
                                      ConfiguredTypes(k)
                   /\ ExecutedFirst(n) \/ ExecutedFirst(m)

\* the node with (string, int64) executed first, the node with
\* (int64, string) after it, and the resource has types (string, int64)
C17_Witness ==
    /\ node["n1"].inGraph /\ node["n2"].inGraph
    /\ node["n2"].subgraph = "A"
    /\ buffer["n1"].shared_name = NameT1
    /\ buffer["n2"].shared_name = NameT1
    /\ ConfiguredTypes("n1") = <<kTfLiteInt64, kTfLiteString>>
    /\ ConfiguredTypes("n2") = <<kTfLiteString, kTfLiteInt64>>
    /\ Executed("n1") /\ Executed("n2")
    /\ ExecutedFirst("n2")
    /\ \E r \in resources["A"] :
           /\ resources["A"] = {r}
           /\ r.key_dtype = kTfLiteString /\ r.value_dtype = kTfLiteInt64

(***************************************************************************)
(* C18: only execution creates resources.  A step that is not a call of     *)
(* EvalHashtable (configuration, shape resolution, teardown) leaves every   *)
(* registry unchanged, and no step removes a resource; so every resource in *)
(* the registry of a subgraph has the handle of the table name of a node of *)
(* that subgraph that has executed successfully, and the resource outlives  *)
(* the teardown of that node.                                               *)
(***************************************************************************)
C18_OnlyEvalChangesRegistry ==
    /\ (\A n \in Nodes : ~EvalStep(n)) => resources' = resources
    /\ \A sg \in Subgraphs : resources[sg] \subseteq resources'[sg]

C18_ResourceHasExecution ==
    \A sg \in Subgraphs :
        \A r \in resources[sg] :
            \E n \in Nodes :
                /\ node[n].inGraph /\ node[n].subgraph = sg
                /\ evals[n] >= 1 /\ call[n].eval = kTfLiteOk
                /\ HandleOf(buffer[n].shared_name) = r.id

C18_OnlyExecutionCreates ==
    [][C18_OnlyEvalChangesRegistry]_vars /\ []C18_ResourceHasExecution

\* every node of the graph has been torn down and the resource a node
\* created is still in the registry
C18_Witness ==
    /\ \A n \in InGraph : call[n].pc = "freed"
    /\ \E n \in InGraph :
           \E r \in resources[node[n].subgraph] : r.instance[1] = n

=============================================================================
